---- MODULE Spec2Model ----
(***************************************************************************)
(* poc-visual-editor: the Vite inline-edit plugin (stamping transform and  *)
(* the /api/apply-edit patch handler) as a state machine.                  *)
(*                                                                         *)
(* Strings are sequences of one-character strings, so that split, join,    *)
(* includes, startsWith and parseInt are computed character by character.  *)
(* A source file is a sequence of tokens: characters of JavaScript code    *)
(* and JSX text (one column each, "\n" starting a new line), opening tags  *)
(* and closing tags.                                                       *)
(***************************************************************************)
EXTENDS Integers, Sequences, FiniteSets, TLC

(***************************************************************************)
(* String helpers (JavaScript String.prototype / Array.prototype).         *)
(***************************************************************************)
Digits == <<"0", "1", "2", "3", "4", "5", "6", "7", "8", "9">>

IsDigit(c) == \E i \in 1..10 : Digits[i] = c

DigitVal(c) == (CHOOSE i \in 1..10 : Digits[i] = c) - 1

\* s.startsWith(p)
StartsWith(s, p) == Len(p) <= Len(s) /\ SubSeq(s, 1, Len(p)) = p

\* s.includes(p)
Includes(s, p) ==
    \E i \in 1..(Len(s) - Len(p) + 1) : SubSeq(s, i, i + Len(p) - 1) = p

\* s.split(sep) for a one-character separator: always at least one part.
RECURSIVE SplitFrom(_, _, _, _)
SplitFrom(s, sep, i, cur) ==
    IF i > Len(s) THEN <<cur>>
    ELSE IF s[i] = sep THEN <<cur>> \o SplitFrom(s, sep, i + 1, <<>>)
    ELSE SplitFrom(s, sep, i + 1, Append(cur, s[i]))

Split(s, sep) == SplitFrom(s, sep, 1, <<>>)

\* parts.join(sep)
RECURSIVE Join(_, _)
Join(parts, sep) ==
    IF Len(parts) = 0 THEN <<>>
    ELSE IF Len(parts) = 1 THEN parts[1]
    ELSE parts[1] \o <<sep>> \o Join(Tail(parts), sep)

\* String(n) for a non-negative integer n: its decimal digits.
RECURSIVE NumToString(_)
NumToString(n) ==
    IF n < 10 THEN <<Digits[n + 1]>>
    ELSE NumToString(n \div 10) \o <<Digits[(n % 10) + 1]>>

NaN == -1

\* The value of the longest prefix of digits of s, read from position i.
RECURSIVE DigitsValue(_, _, _)
DigitsValue(s, i, acc) ==
    IF i > Len(s) \/ ~IsDigit(s[i]) THEN acc
    ELSE DigitsValue(s, i + 1, 10 * acc + DigitVal(s[i]))

\* Leading white space that parseInt skips.
RECURSIVE SkipSpace(_, _)
SkipSpace(s, i) ==
    IF i <= Len(s) /\ s[i] \in {" ", "\n"} THEN SkipSpace(s, i + 1) ELSE i

\* parseInt(s, 10) on strings without a sign: leading white space is skipped,
\* the longest run of digits is read and whatever follows is ignored; NaN
\* when no digit is found.
ParseInt(s) ==
    LET i == SkipSpace(s, 1)
    IN  IF i > Len(s) \/ ~IsDigit(s[i]) THEN NaN ELSE DigitsValue(s, i, 0)

(***************************************************************************)
(* The location-identifier codec.                                          *)
(***************************************************************************)
Null == [valid |-> FALSE, filePath |-> <<>>, line |-> NaN, column |-> NaN]

\* A decoder that splits from the left, as the backend's draft does: the
\* first three parts are the path, the line and the column.
parseEditIdFromLeft(editId) ==
    LET parts == Split(editId, ":")
    IN  IF Len(parts) < 3 THEN Null
        ELSE LET line == ParseInt(parts[2])
                 column == ParseInt(parts[3])
             IN  IF parts[1] = <<>> \/ line = NaN \/ column = NaN THEN Null
                 ELSE [valid |-> TRUE, filePath |-> parts[1],
                       line |-> line, column |-> column]

\* The plugin's parseEditId: split on ":", at least 3 parts, pop the column
\* and the line, join the rest, parseInt both numbers.
parseEditId(editId) ==
    LET parts == Split(editId, ":")
        n == Len(parts)
    IN  IF n < 3 THEN Null
        ELSE LET columnStr == parts[n]
                 lineStr == parts[n - 1]
                 filePath == Join(SubSeq(parts, 1, n - 2), ":")
                 line == ParseInt(lineStr)
                 column == ParseInt(columnStr)
             IN  IF filePath = <<>> \/ line = NaN \/ column = NaN THEN Null
                 ELSE [valid |-> TRUE, filePath |-> filePath,
                       line |-> line, column |-> column]

\* The listener's parseEditId: the same steps under other names (the two
\* numbers are called startOffset and endOffset there).
listenerParseEditId(editId) ==
    LET parts == Split(editId, ":")
        n == Len(parts)
        NoOffsets == [valid |-> FALSE, filePath |-> <<>>,
                      startOffset |-> NaN, endOffset |-> NaN]
    IN  IF n < 3 THEN NoOffsets
        ELSE LET endOffsetStr == parts[n]
                 startOffsetStr == parts[n - 1]
                 filePath == Join(SubSeq(parts, 1, n - 2), ":")
                 startOffset == ParseInt(startOffsetStr)
                 endOffset == ParseInt(endOffsetStr)
             IN  IF filePath = <<>> \/ startOffset = NaN \/ endOffset = NaN
                 THEN NoOffsets
                 ELSE [valid |-> TRUE, filePath |-> filePath,
                       startOffset |-> startOffset, endOffset |-> endOffset]

\* The backend's parseEditId: the first three parts of editId.split(':') are
\* destructured into the path, the line and the column; a missing part is
\* undefined, which parseInt turns into NaN; nothing is rejected.
backendParseEditId(editId) ==
    LET parts == Split(editId, ":")
        line == IF Len(parts) >= 2 THEN ParseInt(parts[2]) ELSE NaN
        column == IF Len(parts) >= 3 THEN ParseInt(parts[3]) ELSE NaN
    IN  [filePath |-> parts[1], loc |-> [line |-> line, column |-> column]]

\* The transform's template literal `${webRelativeFilePath}:${line}:${column}`.
EncodeEditId(webRelativeFilePath, line, column) ==
    webRelativeFilePath \o <<":">> \o NumToString(line) \o <<":">> \o NumToString(column)

(***************************************************************************)
(* Paths (Node's posix path module).                                       *)
(***************************************************************************)
\* The directory of the plugin file; an absolute, normalized path.
VITE_PROJECT_ROOT == <<"/", "r">>

\* Normalization of path segments: "" and "." are dropped, ".." removes the
\* segment before it (and is dropped at the root).
RECURSIVE NormalizeSegments(_, _)
NormalizeSegments(segs, out) ==
    IF Len(segs) = 0 THEN out
    ELSE LET h == Head(segs)
         IN  IF h = <<>> \/ h = <<".">> THEN NormalizeSegments(Tail(segs), out)
             ELSE IF h = <<".", ".">>
                  THEN NormalizeSegments(Tail(segs),
                           IF Len(out) = 0 THEN out ELSE SubSeq(out, 1, Len(out) - 1))
             ELSE NormalizeSegments(Tail(segs), Append(out, h))

\* path.resolve(root, p) for an absolute root: p alone when p is absolute,
\* root/p otherwise, normalized.
PathResolve(root, p) ==
    LET joined == IF Len(p) > 0 /\ p[1] = "/" THEN p ELSE root \o <<"/">> \o p
    IN  <<"/">> \o Join(NormalizeSegments(Split(joined, "/"), <<>>), "/")

NODE_MODULES == <<"n", "o", "d", "e", "_", "m", "o", "d", "u", "l", "e", "s">>

\* The handler's path check (the negation of its rejection condition).
PathAccepted(filePath, absoluteFilePath) ==
    ~ ( Includes(filePath, <<".", ".">>)
        \/ ~StartsWith(absoluteFilePath, VITE_PROJECT_ROOT)
        \/ Includes(absoluteFilePath, NODE_MODULES) )

\* Whether an absolute, normalized path is the root or a descendant of it.
IsDescendant(abs, root) ==
    abs = root \/ StartsWith(abs, root \o <<"/">>)

(***************************************************************************)
(* Source text and its parse.  A file's content is a sequence of tokens:   *)
(*   Ch(c)      one character of JavaScript code or of JSX text            *)
(*   Open       an opening tag without the identifier attribute, <p>       *)
(*   OpenId(v)  an opening tag <p data-edit-id="v">; were the attribute    *)
(*              there twice, v would hold both values with AttrSep, the    *)
(*              text that stands between them, in between                  *)
(*   Close      a closing tag, </p>                                        *)
(* The characters before the first opening tag and after the last closing  *)
(* tag are the JavaScript statement that holds the JSX expression.         *)
(***************************************************************************)
Ch(c) == [k |-> "ch", v |-> <<c>>]
Open == [k |-> "open", v |-> <<>>]
OpenId(v) == [k |-> "openid", v |-> v]
Close == [k |-> "close", v |-> <<>>]

\* The text between the values of two data-edit-id attributes of one tag.
AttrSep == "\" data-edit-id=\""

\* The values of the data-edit-id attributes of a tag, in source order.
IdAttributes(tok) == IF tok.k = "openid" THEN Split(tok.v, AttrSep) ELSE <<>>

Chars(str) == [i \in 1..Len(str) |-> Ch(str[i])]

IsOpening(tok) == tok.k \in {"open", "openid"}

\* The number of columns a token takes: <p> is 3, </p> is 4, and the
\* attribute adds the 16 characters of  data-edit-id="" and its value
\* (AttrSep, one element of v, is 16 characters as well).
Width(tok) ==
    CASE tok.k = "ch" -> 1
      [] tok.k = "open" -> 3
      [] tok.k = "openid" -> 19 + Len(tok.v) + 15 * (Len(IdAttributes(tok)) - 1)
      [] tok.k = "close" -> 4

\* The parser's node.loc.start of the token at index i: 1-based line,
\* 0-based column.
RECURSIVE LocFrom(_, _, _, _, _)
LocFrom(code, i, j, line, column) ==
    IF j >= i THEN [line |-> line, column |-> column]
    ELSE IF code[j] = Ch("\n") THEN LocFrom(code, i, j + 1, line + 1, 0)
    ELSE LocFrom(code, i, j + 1, line, column + Width(code[j]))

LocStart(code, i) == LocFrom(code, i, 1, 1, 0)

\* The element of a set of one element.  (The(\{e(v) : v \in \{x\}\}) is
\* LET v == x IN e(v), with x computed once however often e refers to v.)
The(S) == CHOOSE x \in S : TRUE

\* Nesting depth after the first n tokens; -1 once a closing tag has no
\* opening tag.
RECURSIVE Depth(_, _)
Depth(code, n) ==
    IF n = 0 THEN 0
    ELSE The({IF d < 0 THEN d
              ELSE IF IsOpening(code[n]) THEN d + 1
              ELSE IF code[n].k = "close" THEN d - 1
              ELSE d : d \in {Depth(code, n - 1)}})

\* Whether @babel/parser builds a tree: the tags are balanced and the
\* statement holds at most one JSX root (adjacent roots and unterminated
\* elements are fatal even with errorRecovery).
Parses(code) ==
    /\ Depth(code, Len(code)) = 0
    /\ Cardinality({i \in 1..Len(code) :
                       IsOpening(code[i]) /\ Depth(code, i - 1) = 0}) <= 1

\* The JSXOpeningElement nodes of the tree, by token index; the traversal
\* visits them in document order.
OpeningElements(code) == {i \in 1..Len(code) : IsOpening(code[i])}

\* The closing tag of the element opened at index i.
ClosingOf(code, i) ==
    CHOOSE j \in (i + 1)..Len(code) :
        /\ code[j].k = "close"
        /\ Depth(code, j) = Depth(code, i - 1)
        /\ \A m \in (i + 1)..(j - 1) : Depth(code, m) >= Depth(code, i)

\* The direct JSXText children of the element opened at index i, each as
\* the range [from, to] of its characters, in child order.  A JSXText is a
\* maximal run of characters directly inside the element.
TextChildrenWithin(code, i, d, end) ==
    LET IsText(j) == code[j].k = "ch" /\ Depth(code, j) = d
        starts == {j \in (i + 1)..(end - 1) :
                      IsText(j) /\ (j = i + 1 \/ ~IsText(j - 1))}
        RunEnd(j) == CHOOSE e \in j..(end - 1) :
                        /\ \A m \in j..e : IsText(m)
                        /\ ~IsText(e + 1)
    IN  {[from |-> j, to |-> RunEnd(j)] : j \in starts}

TextChildren(code, i) ==
    The({TextChildrenWithin(code, i, d, end) :
            d \in {Depth(code, i)}, end \in {ClosingOf(code, i)}})

\* The value of a JSXText child, as a string.
TextValue(code, t) == [m \in 1..(t.to - t.from + 1) |-> code[t.from + m - 1].v[1]]

(***************************************************************************)
(* @babel/generator.  The tree is printed, not copied: the JavaScript      *)
(* statement around the JSX expression comes out in the generator's own    *)
(* layout, "x = <p>...</p>;", whatever the layout of the source was;       *)
(* opening tags, closing tags and JSXText are printed as they are.         *)
(***************************************************************************)
GeneratedPrefix == Chars(<<"x", " ", "=", " ">>)
GeneratedSuffix == Chars(<<";">>)

JsxStart(ast) == CHOOSE i \in OpeningElements(ast) : \A j \in OpeningElements(ast) : i <= j

JsxEnd(ast) == ClosingOf(ast, JsxStart(ast))

\* (A tree without JSX is, in this model, the tree of the empty file.)
Generate(ast) ==
    IF OpeningElements(ast) = {} THEN <<>>
    ELSE GeneratedPrefix \o SubSeq(ast, JsxStart(ast), JsxEnd(ast)) \o GeneratedSuffix

(***************************************************************************)
(* The patch handler's locate and mutate steps.                            *)
(***************************************************************************)
NotFound == 0

\* A locate step that forgets the + 1 of the column.
LocateZeroBased(ast, targetLine, targetColumn) ==
    LET hits == {i \in OpeningElements(ast) :
                    /\ LocStart(ast, i).line = targetLine
                    /\ LocStart(ast, i).column = targetColumn}
    IN  IF hits = {} THEN NotFound
        ELSE CHOOSE i \in hits : \A j \in hits : i <= j

\* A locate step that compares the line only.
LocateByLine(ast, targetLine, targetColumn) ==
    LET hits == {i \in OpeningElements(ast) : LocStart(ast, i).line = targetLine}
    IN  IF hits = {} THEN NotFound
        ELSE CHOOSE i \in hits : \A j \in hits : i <= j

\* The locate visitor: the first JSXOpeningElement, in traversal order, whose
\* loc.start is (targetLine, targetColumn - 1); NotFound when there is none.
Locate(ast, targetLine, targetColumn) ==
    LET hits == {i \in OpeningElements(ast) :
                    /\ LocStart(ast, i).line = targetLine
                    /\ LocStart(ast, i).column + 1 = targetColumn}
    IN  IF hits = {} THEN NotFound
        ELSE CHOOSE i \in hits : \A j \in hits : i <= j

\* A mutate step without the break: the last JSXText child keeps the value.
MutateLast(ast, i, newValue) ==
    LET texts == TextChildren(ast, i)
    IN  IF texts = {} THEN [modified |-> FALSE, ast |-> ast]
        ELSE LET child == CHOOSE t \in texts : \A u \in texts : t.from >= u.from
             IN  [modified |-> TRUE,
                  ast |-> SubSeq(ast, 1, child.from - 1) \o Chars(newValue)
                          \o SubSeq(ast, child.to + 1, Len(ast))]

\* A mutate step that descends: the first JSXText anywhere inside the element.
MutateDeep(ast, i, newValue) ==
    LET end == ClosingOf(ast, i)
        chars == {j \in (i + 1)..(end - 1) : ast[j].k = "ch"}
    IN  IF chars = {} THEN [modified |-> FALSE, ast |-> ast]
        ELSE LET from == CHOOSE j \in chars : \A m \in chars : j <= m
                 to == CHOOSE e \in from..(end - 1) :
                          /\ \A m \in from..e : ast[m].k = "ch"
                          /\ ast[e + 1].k # "ch"
             IN  [modified |-> TRUE,
                  ast |-> SubSeq(ast, 1, from - 1) \o Chars(newValue)
                          \o SubSeq(ast, to + 1, Len(ast))]

\* The mutate step on the element opened at index i: the first JSXText among
\* the children of the parent JSXElement gets value newValue.  The result is
\* the text the generator prints for the mutated tree's JSX.
Mutate(ast, i, newValue) ==
    The({IF texts = {} THEN [modified |-> FALSE, ast |-> ast]
         ELSE The({[modified |-> TRUE,
                    ast |-> SubSeq(ast, 1, child.from - 1) \o Chars(newValue)
                            \o SubSeq(ast, child.to + 1, Len(ast))] :
                      child \in {t \in texts : \A u \in texts : t.from <= u.from}}) :
            texts \in {TextChildren(ast, i)}})

(***************************************************************************)
(* The stamping transform.                                                 *)
(***************************************************************************)
EndsWith(str, suffix) ==
    Len(suffix) <= Len(str)
    /\ SubSeq(str, Len(str) - Len(suffix) + 1, Len(str)) = suffix

\* The number of leading segments two segment lists share.
RECURSIVE CommonPrefixLen(_, _)
CommonPrefixLen(a, b) ==
    IF Len(a) = 0 \/ Len(b) = 0 \/ Head(a) # Head(b) THEN 0
    ELSE 1 + CommonPrefixLen(Tail(a), Tail(b))

\* path.relative(from, to) for absolute, normalized paths: one ".." for each
\* segment of `from` that `to` does not share, then the rest of `to`.
PathRelative(from, to) ==
    LET f == NormalizeSegments(Split(from, "/"), <<>>)
        t == NormalizeSegments(Split(to, "/"), <<>>)
        n == CommonPrefixLen(f, t)
    IN  Join([i \in 1..(Len(f) - n) |-> <<".", ".">>] \o SubSeq(t, n + 1, Len(t)), "/")

\* The eligibility filter of transform (the negation of its early return).
Eligible(id) ==
    /\ EndsWith(id, <<".", "j", "s", "x">>) \/ EndsWith(id, <<".", "t", "s", "x">>)
    /\ StartsWith(id, VITE_PROJECT_ROOT)
    /\ ~Includes(id, NODE_MODULES)

\* A visitor that takes the column as the parser gives it, 0-based.
StampTokenZeroBased(webRelativeFilePath, code, i) ==
    IF code[i].k = "open"
    THEN OpenId(EncodeEditId(webRelativeFilePath,
                             LocStart(code, i).line, LocStart(code, i).column))
    ELSE code[i]

\* A visitor that names an element by the line it starts on alone.
StampTokenByLine(webRelativeFilePath, code, i) ==
    IF code[i].k = "open"
    THEN OpenId(EncodeEditId(webRelativeFilePath, LocStart(code, i).line, 1))
    ELSE code[i]

\* A visitor without the alreadyHasId check: the attribute is pushed onto
\* every opening tag, after the one it may have.
StampTokenAgain(webRelativeFilePath, code, i) ==
    LET editId == EncodeEditId(webRelativeFilePath,
                               LocStart(code, i).line, LocStart(code, i).column + 1)
    IN  IF code[i].k = "open" THEN OpenId(editId)
        ELSE IF code[i].k = "openid" THEN OpenId(code[i].v \o <<AttrSep>> \o editId)
        ELSE code[i]

\* The stamping visitor on one token: an opening tag without the attribute
\* gets data-edit-id = path:line:column+1; every other token is left alone.
StampToken(webRelativeFilePath, code, i) ==
    IF code[i].k = "open"
    THEN OpenId(EncodeEditId(webRelativeFilePath,
                             LocStart(code, i).line, LocStart(code, i).column + 1))
    ELSE code[i]

\* What the caller of transform gets: null (ok = FALSE), code (ok = TRUE),
\* or an exception (threw = TRUE).
ReturnNull == [ok |-> FALSE, code |-> <<>>, threw |-> FALSE]

ReturnCode(code) == [ok |-> TRUE, code |-> code, threw |-> FALSE]

Throw == [ok |-> FALSE, code |-> <<>>, threw |-> TRUE]

\* A transform without the alreadyHasId check.
transformAgain(code, id) ==
    LET webRelativeFilePath == PathRelative(VITE_PROJECT_ROOT, id)
        attributesAdded == Cardinality(OpeningElements(code))
        stamped == [i \in 1..Len(code) |-> StampTokenAgain(webRelativeFilePath, code, i)]
    IN  IF ~Eligible(id) \/ ~Parses(code) \/ attributesAdded = 0
        THEN ReturnNull
        ELSE ReturnCode(Generate(stamped))

\* A transform without the try/catch around the parser.
transformNoCatch(code, id) ==
    LET webRelativeFilePath == PathRelative(VITE_PROJECT_ROOT, id)
        attributesAdded == Cardinality({i \in 1..Len(code) : code[i].k = "open"})
        stamped == [i \in 1..Len(code) |-> StampToken(webRelativeFilePath, code, i)]
    IN  IF ~Eligible(id) THEN ReturnNull
        ELSE IF ~Parses(code) THEN Throw
        ELSE IF attributesAdded = 0 THEN ReturnNull
        ELSE ReturnCode(Generate(stamped))

\* A transform that generates and returns code whether or not the visitor
\* added an attribute.
transformAlways(code, id) ==
    LET webRelativeFilePath == PathRelative(VITE_PROJECT_ROOT, id)
        stamped == [i \in 1..Len(code) |-> StampToken(webRelativeFilePath, code, i)]
    IN  IF ~Eligible(id) \/ ~Parses(code) THEN ReturnNull
        ELSE ReturnCode(Generate(stamped))

\* transform(code, id): the early return for a path that is not eligible;
\* the parser's exception caught (null); null when the visitor added no
\* attribute; the generated code otherwise.
transform(code, id) ==
    LET webRelativeFilePath == PathRelative(VITE_PROJECT_ROOT, id)
        attributesAdded == Cardinality({i \in 1..Len(code) : code[i].k = "open"})
        stamped == [i \in 1..Len(code) |-> StampToken(webRelativeFilePath, code, i)]
    IN  IF ~Eligible(id) THEN ReturnNull
        ELSE IF ~Parses(code) THEN ReturnNull
        ELSE IF attributesAdded = 0 THEN ReturnNull
        ELSE ReturnCode(Generate(stamped))

\* The data-edit-id values in a piece of code.
EditIdsIn(code) == {code[i].v : i \in {j \in 1..Len(code) : code[j].k = "openid"}}

(***************************************************************************)
(* The files of the model and the inputs of the requests.                  *)
(***************************************************************************)
PathA == <<"/", "r", "/", "a", ".", "t", "s", "x">>
PathB == <<"/", "r", "/", "b", ".", "t", "s", "x">>
\* A file in a sibling directory whose name starts with the root's name.
PathS == <<"/", "r", "2", "/", "s", ".", "t", "s", "x">>

\* x = <p>x<p>y</p>y</p>;
SrcNested ==
    Chars(<<"x", " ", "=", " ">>)
    \o <<Open, Ch("x"), Open, Ch("y"), Close, Ch("y"), Close>> \o Chars(<<";">>)
\* x=(
\*  <p><p>x</p><p>y</p></p>
\* )
SrcSiblings ==
    Chars(<<"x", "=", "(", "\n", " ">>)
    \o <<Open, Open, Ch("x"), Close, Open, Ch("y"), Close, Close>>
    \o Chars(<<"\n", ")">>)
\* x=<p>x</p>
SrcTight == Chars(<<"x", "=">>) \o <<Open, Ch("x"), Close>>
\* x = <p>x          (the closing tag is missing: a syntax error)
SrcBroken == Chars(<<"x", " ", "=", " ">>) \o <<Open, Ch("x")>>
\* x = <p>x</p>;
SrcPlain == Chars(<<"x", " ", "=", " ">>) \o <<Open, Ch("x"), Close>> \o Chars(<<";">>)

InitialSources == {SrcNested, SrcSiblings, SrcTight, SrcBroken}

\* The longest newValue a request carries.
MaxValueLen == 2

NewValues == {<<>>, <<"y">>} \cup {[i \in 1..MaxValueLen |-> "z"]}

\* Identifiers a client can send that no stamping pass minted.
IdEscapeRelative == <<".", ".", "/", "s", ".", "t", "s", "x", ":", "1", ":", "5">>
IdEscapeSibling == PathS \o <<":", "1", ":", "5">>
IdNoElement == <<"a", ".", "t", "s", "x", ":", "9", ":", "9">>
IdNoFile == <<"c", ".", "t", "s", "x", ":", "1", ":", "5">>
IdOnePart == <<"a", ".", "t", "s", "x">>
IdNotNumeric == <<"a", ".", "t", "s", "x", ":", "x", ":", "5">>
IdEmptyPath == <<":", "1", ":", "5">>

ArbitraryIds ==
    {IdEscapeRelative, IdEscapeSibling, IdNoElement, IdNoFile,
     IdOnePart, IdNotNumeric, IdEmptyPath}

\* A request body: text that is not JSON, or a JSON object that may lack
\* either field.
Body(hasEditId, editId, hasNewValue, newValue) ==
    [json |-> TRUE, hasEditId |-> hasEditId, editId |-> editId,
     hasNewValue |-> hasNewValue, newValue |-> newValue]

NotJson ==
    [json |-> FALSE, hasEditId |-> FALSE, editId |-> <<>>,
     hasNewValue |-> FALSE, newValue |-> <<>>]

Bodies(shown) ==
    {Body(TRUE, id, TRUE, v) : id \in shown, v \in NewValues}
    \cup {Body(TRUE, id, TRUE, <<"y">>) : id \in ArbitraryIds}
    \cup {NotJson, Body(FALSE, <<>>, TRUE, <<"y">>), Body(TRUE, <<>>, TRUE, <<"y">>)}
    \cup {Body(TRUE, id, FALSE, <<>>) : id \in shown}

(***************************************************************************)
(* State.                                                                  *)
(*   fs    the content of every file that exists, by absolute path         *)
(*   mod   the module graph of the dev server: for every module the code   *)
(*         transform was last called with, and what it returned            *)
(*   req   one record per client request to /api/apply-edit: where its     *)
(*         handler stands (pc), the locals of the handler, the response,   *)
(*         and the file-system calls it has made so far (io)               *)
(*   codec one use of the identifier codec: the (path, line, column) put   *)
(*         in, the identifier encoded from them and what decoding returns  *)
(*   ui    the browser side: an input event at the listener and what the   *)
(*         listener fetches for it, a message at the host page and the     *)
(*         backend requests made for it, and per edit the way from the     *)
(*         plugin's response to the backend                                *)
(*   pos   one use of the offset helper: the text and the offset put in    *)
(*         and the position it returns                                     *)
(***************************************************************************)
VARIABLES fs, mod, req, codec, ui, pos

vars == <<fs, mod, req, codec, ui, pos>>

Files == {PathA, PathB, PathS}

Clients == {"c1", "c2"}

NoResponse == 0

Idle ==
    [pc |-> "idle", body |-> NotJson, filePath |-> <<>>, absoluteFilePath |-> <<>>,
     targetLine |-> 0, targetColumn |-> 0, originalContent |-> <<>>,
     newContent |-> <<>>, status |-> NoResponse, error |-> "",
     resFilePath |-> <<>>, resNewContent |-> <<>>, io |-> <<>>]

\* The codec before use, with its input.
CodecInput(path, line, column) ==
    [stage |-> "input", path |-> path, line |-> line, column |-> column,
     editId |-> <<>>, parsed |-> Null,
     listener |-> listenerParseEditId(<<>>), backend |-> backendParseEditId(<<>>)]

\* The codec holding an identifier that came from outside.
CodecReceived(editId) ==
    [CodecInput(<<>>, 0, 0) EXCEPT !.stage = "received", !.editId = editId]

\* A module as the dev server holds it.
Loaded(code, id) == [code |-> code, out |-> transform(code, id)]

(***************************************************************************)
(* The browser side: the listener injected into the preview page, the host *)
(* page that embeds the preview in an iframe, and the backend the host     *)
(* page posts to.                                                          *)
(***************************************************************************)
PreviewOrigin == "http://localhost:5173"
HostOrigin == "http://localhost:3000"
OtherOrigin == "http://localhost:8080"

DevTools == "react-devtools-content-script"

\* A message event as the host page receives it: event.origin,
\* event.data.type, event.data.source and event.data.payload.
Message(origin, type, source, payload) ==
    [origin |-> origin, type |-> type, source |-> source, payload |-> payload]

Payload(editId, newValue) == [editId |-> editId, newValue |-> newValue]

NoPayload == Payload(<<>>, <<>>)

NoMessage == Message("", "", "", NoPayload)

\* The host page's message handler without the origin test.
handleIframeMessageAnyOrigin(event) ==
    IF event.source = DevTools THEN 0
    ELSE IF event.type = "editApplied" THEN 1
    ELSE 0

\* handleIframeMessage of the host page: the number of calls of
\* sendEditToBackend it makes for the event, each of which is one fetch.
handleIframeMessage(event) ==
    IF event.source = DevTools THEN 0
    ELSE IF event.origin # PreviewOrigin /\ event.origin # HostOrigin THEN 0
    ELSE IF event.type = "editApplied" THEN 1
    ELSE 0

\* An element on the way from the event target to the document root.
Elem(hasAttribute, value) == [hasAttribute |-> hasAttribute, value |-> value]

\* An input event: its target and the target's ancestors, nearest first.
InputEvent(isHTMLElement, isContentEditable, textContent, path) ==
    [isHTMLElement |-> isHTMLElement, isContentEditable |-> isContentEditable,
     textContent |-> textContent, path |-> path]

NoEvent == InputEvent(FALSE, FALSE, <<>>, <<>>)

SearchLimit == 10

\* The result of the search: the index in the path of the element it ends
\* on (0 is null) and the value of searchDepth.
Found(element, searchDepth) == [element |-> element, searchDepth |-> searchDepth]

\* The while loop of handleInlineEdit, from the element at the given index.
RECURSIVE Search(_, _, _)
Search(path, element, searchDepth) ==
    IF element > Len(path) THEN Found(0, searchDepth)
    ELSE IF path[element].hasAttribute THEN Found(element, searchDepth)
    ELSE IF searchDepth + 1 > SearchLimit THEN Found(0, searchDepth + 1)
    ELSE Search(path, element + 1, searchDepth + 1)

\* What handleInlineEdit does with an input event up to its fetch.
Fetch(sent, editId, newValue, searchDepth) ==
    [sent |-> sent, editId |-> editId, newValue |-> newValue,
     searchDepth |-> searchDepth]

NoFetch(searchDepth) == Fetch(FALSE, <<>>, <<>>, searchDepth)

\* handleInlineEdit sending whatever identifier it read.
handleInlineEditUnparsed(event) ==
    IF ~(event.isHTMLElement /\ event.isContentEditable) THEN NoFetch(0)
    ELSE The({IF found.element = 0 THEN NoFetch(found.searchDepth)
              ELSE Fetch(TRUE, event.path[found.element].value, event.textContent,
                         found.searchDepth)
              : found \in {Search(event.path, 1, 0)}})

handleInlineEdit(event) ==
    IF ~(event.isHTMLElement /\ event.isContentEditable) THEN NoFetch(0)
    ELSE The({IF found.element = 0 THEN NoFetch(found.searchDepth)
              ELSE LET editId == event.path[found.element].value
                       newValue == event.textContent
                   IN  IF editId = <<>> THEN NoFetch(found.searchDepth)
                       ELSE IF ~listenerParseEditId(editId).valid
                            THEN NoFetch(found.searchDepth)
                       ELSE Fetch(TRUE, editId, newValue, found.searchDepth)
              : found \in {Search(event.path, 1, 0)}})

\* One edit on its way from the listener to the backend: what happened so
\* far, the message the listener posted and the body the backend received.
NoRelay == [log |-> <<>>, message |-> NoMessage, received |-> NoPayload]

UiIdle ==
    [stage |-> "idle", event |-> NoEvent, fetch |-> NoFetch(0),
     message |-> NoMessage, forwards |-> 0,
     relay |-> [c \in Clients |-> NoRelay]]

(***************************************************************************)
(* Positions in raw text: the helper of the draft that turns a character   *)
(* offset into a line and a column, and the position @babel/parser gives a *)
(* node that starts at the offset.                                         *)
(***************************************************************************)
NoPosition == [valid |-> FALSE, line |-> 0, column |-> 0]

Position(line, column) == [valid |-> TRUE, line |-> line, column |-> column]

\* The for loop of getLineColFromOffset from index i on: content[i] of the
\* code is content[i + 1] here.
RECURSIVE LineColLoop(_, _, _, _, _)
LineColLoop(content, offset, i, line, lastNewline) ==
    IF i >= offset THEN Position(line, offset - lastNewline)
    ELSE IF content[i + 1] = "\n"
         THEN LineColLoop(content, offset, i + 1, line + 1, i)
         ELSE LineColLoop(content, offset, i + 1, line, lastNewline)

getLineColFromOffset(content, offset) ==
    IF offset < 0 \/ offset > Len(content) THEN NoPosition
    ELSE LineColLoop(content, offset, 0, 1, -1)

\* The parser's line terminators: line feed, carriage return (with a line
\* feed after it the two are one terminator), and the two Unicode
\* separators, which the texts here do not contain.
\* curLine and lineStart of the tokenizer once it has read up to statePos.
RECURSIVE BabelLineFrom(_, _, _, _, _)
BabelLineFrom(content, offset, statePos, curLine, lineStart) ==
    IF statePos >= offset THEN [line |-> curLine, column |-> offset - lineStart]
    ELSE IF content[statePos + 1] = "\r" /\ statePos + 1 < Len(content) /\ content[statePos + 2] = "\n"
         THEN BabelLineFrom(content, offset, statePos + 2, curLine + 1, statePos + 2)
    ELSE IF content[statePos + 1] \in {"\n", "\r"}
         THEN BabelLineFrom(content, offset, statePos + 1, curLine + 1, statePos + 1)
    ELSE BabelLineFrom(content, offset, statePos + 1, curLine, lineStart)

\* node.loc.start of a node whose first character is at the offset:
\* 1-based line, 0-based column.
BabelLocStart(content, offset) == BabelLineFrom(content, offset, 0, 1, 0)

\* One use of the helper: the text and the offset put in, and the result.
PosInput(content, offset) ==
    [stage |-> "input", content |-> content, offset |-> offset, loc |-> NoPosition]

PosIdle == [PosInput(<<>>, 0) EXCEPT !.stage = "idle"]

Init ==
    /\ fs \in {f \in [Files -> InitialSources \cup {SrcPlain}] :
                  f[PathB] = SrcPlain /\ f[PathS] = SrcPlain /\ f[PathA] # SrcPlain}
    /\ mod = [f \in Files |-> Loaded(fs[f], f)]
    /\ req = [r \in Clients |-> Idle]
    /\ codec = CodecInput(<<"a">>, 1, 1)
    /\ ui = UiIdle
    /\ pos = PosIdle

\* A catch block that logs the error and sends nothing.
FailUnanswered(r, status, error) ==
    IF status = 500 THEN [r EXCEPT !.pc = "caught"]
    ELSE [r EXCEPT !.pc = "done", !.status = status, !.error = error]

\* res.writeHead(status); res.end({error}): the handler returns.
Fail(r, status, error) ==
    [r EXCEPT !.pc = "done", !.status = status, !.error = error]

\* Vite (re)loads module f after its file changed: transform runs on the
\* content on disk.
Transform(f) ==
    /\ mod[f].code # fs[f]
    /\ mod' = [mod EXCEPT ![f] = Loaded(fs[f], f)]
    /\ UNCHANGED <<fs, req, codec, ui, pos>>

\* The data-edit-id values the preview shows: those of the transformed code
\* of each module, or of its source when transform returned null.
Shown ==
    UNION {EditIdsIn(IF mod[f].out.ok THEN mod[f].out.code ELSE mod[f].code) : f \in Files}

\* The 'end' callback up to the call of fs.readFile: JSON.parse, the field
\* check, parseEditId and the path check.
HandleBody(r, body) ==
    LET parsedId == parseEditId(body.editId)
        absoluteFilePath == PathResolve(VITE_PROJECT_ROOT, parsedId.filePath)
    IN  IF ~body.json
        THEN Fail(r, 500, "Internal server error during edit application.")
        ELSE IF ~body.hasEditId \/ body.editId = <<>> \/ ~body.hasNewValue
        THEN Fail(r, 400, "Missing editId or newValue")
        ELSE IF ~parsedId.valid
        THEN Fail(r, 400, "Invalid editId format (filePath:line:column)")
        ELSE IF ~PathAccepted(parsedId.filePath, absoluteFilePath)
        THEN [Fail(r, 400, "Invalid path") EXCEPT
                 !.filePath = parsedId.filePath,
                 !.absoluteFilePath = absoluteFilePath]
        ELSE [r EXCEPT !.pc = "reading",
                       !.filePath = parsedId.filePath,
                       !.absoluteFilePath = absoluteFilePath,
                       !.targetLine = parsedId.line,
                       !.targetColumn = parsedId.column]

\* A client's POST has been received in full: the 'end' event fires.
OnEnd(c) ==
    /\ req[c].pc = "idle"
    /\ \E body \in Bodies(Shown) :
          req' = [req EXCEPT ![c] = HandleBody([req[c] EXCEPT !.body = body], body)]
    /\ UNCHANGED <<fs, mod, codec, ui, pos>>

\* What follows the read, up to the call of fs.writeFile: parse, locate,
\* mutate, generate.
AfterLocate(read, target) ==
    IF target = NotFound
    THEN Fail(read, 404, "AST Modification Failed - Target node not found by line/column.")
    ELSE The({IF ~mutated.modified
              THEN Fail(read, 409, "AST Modification Failed - Target node found, but failed to modify text child.")
              ELSE [read EXCEPT !.pc = "writing", !.newContent = Generate(mutated.ast)] :
                 mutated \in {Mutate(read.originalContent, target, read.body.newValue)}})

AfterRead(r, originalContent) ==
    LET read == [r EXCEPT !.originalContent = originalContent]
    IN  IF ~Parses(originalContent)
        THEN Fail(read, 500, "Internal server error during edit application.")
        ELSE The({AfterLocate(rd, target) :
                     rd \in {read},
                     target \in {Locate(originalContent, r.targetLine, r.targetColumn)}})

\* A handler that takes the module's code from the dev server, which holds
\* the stamped output, when it has it.
ReadFileStamped(c) ==
    /\ req[c].pc = "reading"
    /\ LET r == [req[c] EXCEPT !.io = Append(@, "read")]
           f == r.absoluteFilePath
       IN  req' = [req EXCEPT ![c] =
              IF f \notin DOMAIN fs
              THEN Fail(r, 500, "Internal server error during edit application.")
              ELSE AfterRead(r, IF mod[f].out.ok THEN mod[f].out.code ELSE fs[f])]
    /\ UNCHANGED <<fs, mod, codec, ui, pos>>

\* fs.readFile completes: it throws when the file does not exist, and
\* otherwise the handler runs on with the content read.
ReadFile(c) ==
    /\ req[c].pc = "reading"
    /\ \E r \in {[req[c] EXCEPT !.io = Append(@, "read")]} :
          req' = [req EXCEPT ![c] =
              IF r.absoluteFilePath \notin DOMAIN fs
              THEN Fail(r, 500, "Internal server error during edit application.")
              ELSE The({AfterRead(r, originalContent) :
                           originalContent \in {fs[r.absoluteFilePath]}})]
    /\ UNCHANGED <<fs, mod, codec, ui, pos>>

\* fs.writeFile opens the file with flag 'w', which truncates it, or fails
\* to open it (the file is then untouched and the catch block answers).
WriteOpen(c) ==
    /\ req[c].pc = "writing"
    /\ \/ /\ fs' = [fs EXCEPT ![req[c].absoluteFilePath] = <<>>]
          /\ req' = [req EXCEPT ![c].pc = "truncated", ![c].io = Append(@, "truncate")]
       \/ /\ req' = [req EXCEPT ![c] =
                Fail(req[c], 500, "Internal server error during edit application.")]
          /\ UNCHANGED fs
    /\ UNCHANGED <<mod, codec, ui, pos>>

\* A handler whose absoluteFilePath is one variable shared by all requests:
\* the write goes to the path some request in progress has put there.
WriteDataShared(c) ==
    /\ req[c].pc = "truncated"
    /\ \/ \E d \in Clients :
            /\ req[d].absoluteFilePath \in DOMAIN fs
            /\ fs' = [fs EXCEPT ![req[d].absoluteFilePath] = req[c].newContent]
            /\ req' = [req EXCEPT ![c].pc = "written", ![c].io = Append(@, "write")]
       \/ /\ req' = [req EXCEPT ![c] =
                Fail(req[c], 500, "Internal server error during edit application.")]
          /\ UNCHANGED fs
    /\ UNCHANGED <<mod, codec, ui, pos>>

\* fs.writeFile writes the new content into the truncated file, or fails
\* while writing (the catch block answers).
WriteData(c) ==
    /\ req[c].pc = "truncated"
    /\ \/ /\ fs' = [fs EXCEPT ![req[c].absoluteFilePath] = req[c].newContent]
          /\ req' = [req EXCEPT ![c].pc = "written", ![c].io = Append(@, "write")]
       \/ /\ req' = [req EXCEPT ![c] =
                Fail(req[c], 500, "Internal server error during edit application.")]
          /\ UNCHANGED fs
    /\ UNCHANGED <<mod, codec, ui, pos>>

\* A handler that does not await the write: the success response goes out
\* once the new content is generated.
RespondEarly(c) ==
    /\ req[c].pc = "writing"
    /\ req' = [req EXCEPT ![c].pc = "done", ![c].status = 200,
                          ![c].resFilePath = req[c].filePath,
                          ![c].resNewContent = req[c].newContent]
    /\ UNCHANGED <<fs, mod, codec, ui, pos>>

\* The handler resumes after the write: the success response.
Respond(c) ==
    /\ req[c].pc = "written"
    /\ req' = [req EXCEPT ![c].pc = "done", ![c].status = 200,
                          ![c].resFilePath = req[c].filePath,
                          ![c].resNewContent = req[c].newContent]
    /\ UNCHANGED <<fs, mod, codec, ui, pos>>

Next ==
    \/ \E f \in Files : Transform(f)
    \/ \E c \in Clients : OnEnd(c)
    \/ \E c \in Clients : ReadFile(c)
    \/ \E c \in Clients : WriteOpen(c)
    \/ \E c \in Clients : WriteData(c)
    \/ \E c \in Clients : Respond(c)

Spec == Init /\ [][Next]_vars

\* The same, when every read and every write of the file system returns
\* (with a result or with an error) and the handler resumes after it.
LiveSpec ==
    /\ Spec
    /\ \A c \in Clients :
          /\ WF_vars(ReadFile(c))
          /\ WF_vars(WriteOpen(c))
          /\ WF_vars(WriteData(c))
          /\ WF_vars(Respond(c))

(***************************************************************************)
(* The edit on its way on: the listener that sent the request handles the  *)
(* plugin's response, the host page handles the listener's message, the    *)
(* backend handles the host page's request.                                *)
(***************************************************************************)
\* The request is one handleInlineEdit sends: a JSON body with both fields
\* and an identifier its parseEditId accepted.
ListenerSent(body) ==
    /\ body.json /\ body.hasEditId /\ body.hasNewValue
    /\ body.editId # <<>>
    /\ listenerParseEditId(body.editId).valid

\* response.ok of fetch.
ResponseOk(status) == status \in 200..299

\* The message handleInlineEdit posts to the parent window.
EditApplied(editId, newContent) ==
    Message(PreviewOrigin, "editApplied", "", Payload(editId, newContent))

\* The listener's fetch rejects: no response reaches it, the catch block
\* logs the error.
FetchRejects(c) ==
    /\ req[c].pc # "idle"
    /\ ListenerSent(req[c].body)
    /\ ui.relay[c].log = <<>>
    /\ ui' = [ui EXCEPT !.relay[c].log = <<"error">>]
    /\ UNCHANGED <<fs, mod, req, codec, pos>>

\* A listener that posts the message whatever the status of the response.
ListenerResponseAnyStatus(c) ==
    /\ req[c].pc = "done"
    /\ ListenerSent(req[c].body)
    /\ ui.relay[c].log = <<>>
    /\ ui' = [ui EXCEPT !.relay[c].log = <<"post">>,
                        !.relay[c].message =
                            EditApplied(req[c].body.editId, req[c].resNewContent)]
    /\ UNCHANGED <<fs, mod, req, codec, pos>>

\* The listener resumes with the plugin's response: a response that is not
\* ok is thrown into the catch block, an ok one is posted to the parent.
ListenerResponse(c) ==
    /\ req[c].pc = "done"
    /\ ListenerSent(req[c].body)
    /\ ui.relay[c].log = <<>>
    /\ ui' = IF ~ResponseOk(req[c].status)
             THEN [ui EXCEPT !.relay[c].log = <<"error">>]
             ELSE [ui EXCEPT !.relay[c].log = <<"post">>,
                             !.relay[c].message =
                                 EditApplied(req[c].body.editId, req[c].resNewContent)]
    /\ UNCHANGED <<fs, mod, req, codec, pos>>

\* The host page receives the listener's message.
HostMessage(c) ==
    /\ ui.relay[c].log = <<"post">>
    /\ ui' = [ui EXCEPT !.relay[c].log =
                 IF handleIframeMessage(ui.relay[c].message) = 1
                 THEN Append(@, "forward") ELSE Append(@, "ignored")]
    /\ UNCHANGED <<fs, mod, req, codec, pos>>

\* A backend that does what the README says of it: it parses the identifier
\* and writes the new value into the file.
BackendEditWrites(c) ==
    /\ ui.relay[c].log = <<"post", "forward">>
    /\ ui' = [ui EXCEPT !.relay[c].log = Append(@, "received"),
                        !.relay[c].received = ui.relay[c].message.payload]
    /\ fs' = [fs EXCEPT ![req[c].absoluteFilePath] = ui.relay[c].message.payload.newValue]
    /\ UNCHANGED <<mod, req, codec, pos>>

\* The backend's /api/__edit handler: it logs the two fields of the body
\* and answers 200.
BackendEdit(c) ==
    /\ ui.relay[c].log = <<"post", "forward">>
    /\ ui' = [ui EXCEPT !.relay[c].log = Append(@, "received"),
                        !.relay[c].received = ui.relay[c].message.payload]
    /\ UNCHANGED <<fs, mod, req, codec, pos>>

RelayNext ==
    \/ Next
    \/ \E c \in Clients : FetchRejects(c)
    \/ \E c \in Clients : ListenerResponse(c)
    \/ \E c \in Clients : HostMessage(c)
    \/ \E c \in Clients : BackendEdit(c)

\* One preview project, with its modules loaded.
RelayInit == Init /\ fs[PathA] = SrcNested

RelaySpec == RelayInit /\ [][RelayNext]_vars

(***************************************************************************)
(* The two event handlers of the browser side on their own: any message at *)
(* the host page, any input event at the listener.                         *)
(***************************************************************************)
Origins == {PreviewOrigin, HostOrigin, OtherOrigin}

MessageTypes == {"editApplied", "ready", ""}

MessageSources == {"", DevTools}

Messages ==
    {Message(origin, type, source, Payload(<<"a", ":", "1", ":", "2">>, <<"y">>)) :
        origin \in Origins, type \in MessageTypes, source \in MessageSources}

\* Values of the data-edit-id attribute: none, an identifier of the stamping
\* transform, one with letters after the digits, one with a part missing,
\* one whose number has no digit.
AttributeValues ==
    {<<>>,
     <<"a", ":", "1", ":", "2">>,
     <<"a", ":", "1", "a", ":", "2">>,
     <<"a", ":", "1">>,
     <<"a", ":", "x", ":", "1">>}

MaxAncestors == 12

\* The target and n - 1 ancestors, the nearest attribute on the k-th of them
\* (on none when k = 0), and the stamped identifier on every element further
\* out when outer holds.
PathWith(n, k, value, outer) ==
    [i \in 1..n |->
        IF i = k THEN Elem(TRUE, value)
        ELSE IF i > k /\ k > 0 /\ outer THEN Elem(TRUE, <<"a", ":", "1", ":", "2">>)
        ELSE Elem(FALSE, <<>>)]

InputEvents ==
    {InputEvent(isHTMLElement, isContentEditable, <<"y">>, PathWith(n, k, value, outer)) :
        isHTMLElement \in BOOLEAN, isContentEditable \in BOOLEAN,
        n \in 1..(MaxAncestors + 1), k \in 0..(MaxAncestors + 1),
        value \in AttributeValues, outer \in BOOLEAN}

UiInit ==
    /\ fs = [f \in Files |-> SrcPlain]
    /\ mod = [f \in Files |-> Loaded(fs[f], f)]
    /\ req = [r \in Clients |-> Idle]
    /\ codec = CodecInput(<<"a">>, 1, 1)
    /\ ui \in {[UiIdle EXCEPT !.stage = "message", !.message = m] : m \in Messages}
              \cup {[UiIdle EXCEPT !.stage = "input", !.event = e] : e \in InputEvents}
    /\ pos = PosIdle

\* The host page's 'message' listener runs.
OnMessage ==
    /\ ui.stage = "message"
    /\ ui' = [ui EXCEPT !.stage = "handled",
                        !.forwards = handleIframeMessage(ui.message)]
    /\ UNCHANGED <<fs, mod, req, codec, pos>>

\* The document's 'input' listener runs, up to its fetch.
OnInput ==
    /\ ui.stage = "input"
    /\ ui' = [ui EXCEPT !.stage = "edited", !.fetch = handleInlineEdit(ui.event)]
    /\ UNCHANGED <<fs, mod, req, codec, pos>>

UiNext == OnMessage \/ OnInput

UiSpec == UiInit /\ [][UiNext]_vars

(***************************************************************************)
(* The offset helper on its own: any text of up to MaxTextLen characters   *)
(* over a letter and the line terminators, any offset from one before the  *)
(* text to one after its end.                                              *)
(***************************************************************************)
MaxTextLen == 4

TextAlphabet == {"a", "\n", "\r"}

Texts == UNION {[1..n -> TextAlphabet] : n \in 0..MaxTextLen}

PosInit ==
    /\ fs = [f \in Files |-> SrcPlain]
    /\ mod = [f \in Files |-> Loaded(fs[f], f)]
    /\ req = [r \in Clients |-> Idle]
    /\ codec = CodecInput(<<"a">>, 1, 1)
    /\ ui = UiIdle
    /\ pos \in {PosInput(content, offset) :
                   content \in Texts, offset \in (-1)..(MaxTextLen + 1)}

\* findNodeByLineCol asks for the position of a node's start.
LineCol ==
    /\ pos.stage = "input"
    /\ pos' = [pos EXCEPT !.stage = "computed",
                          !.loc = getLineColFromOffset(pos.content, pos.offset)]
    /\ UNCHANGED <<fs, mod, req, codec, ui>>

PosNext == LineCol

PosSpec == PosInit /\ [][PosNext]_vars

(***************************************************************************)
(* A project with files of other names: one with two dots in its name, one *)
(* with a colon, and the file of the sibling directory.  The dev server    *)
(* loads each; no request is made.                                         *)
(***************************************************************************)
\* /r/a..tsx
PathDots == <<"/", "r", "/", "a", ".", ".", "t", "s", "x">>
\* /r/a:b.tsx
PathColon == <<"/", "r", "/", "a", ":", "b", ".", "t", "s", "x">>

MintFiles == {PathA, PathDots, PathColon, PathS}

MintInit ==
    /\ fs \in [MintFiles -> {SrcPlain, SrcNested, SrcSiblings}]
    /\ mod = [f \in MintFiles |-> Loaded(<<>>, f)]
    /\ req = [r \in Clients |-> Idle]
    /\ codec = CodecInput(<<"a">>, 1, 1)
    /\ ui = UiIdle
    /\ pos = PosIdle

MintNext == \E f \in MintFiles : Transform(f)

MintSpec == MintInit /\ [][MintNext]_vars

(***************************************************************************)
(* A preview that shows an element on a line of its own, and users who     *)
(* type a letter or a line break into the elements they see.               *)
(***************************************************************************)
\* x = <p>x<p>y</p>
\* <p>z</p></p>;
SrcLines ==
    Chars(<<"x", " ", "=", " ">>)
    \o <<Open, Ch("x"), Open, Ch("y"), Close, Ch("\n"), Open, Ch("z"), Close, Close>>
    \o Chars(<<";">>)

\* target.textContent after the user's input.
TypedValues == {<<"\n">>, <<"q">>}

TypedBodies(shown) == {Body(TRUE, id, TRUE, v) : id \in shown, v \in TypedValues}

StaleInit ==
    /\ fs = [f \in Files |-> IF f = PathA THEN SrcLines ELSE SrcPlain]
    /\ mod = [f \in Files |-> Loaded(fs[f], f)]
    /\ req = [r \in Clients |-> Idle]
    /\ codec = CodecInput(<<"a">>, 1, 1)
    /\ ui = UiIdle
    /\ pos = PosIdle

\* The 'end' event of a request the listener sent for an element the
\* preview shows, with the text the user typed.
OnEndTyped(c) ==
    /\ req[c].pc = "idle"
    /\ \E body \in TypedBodies(Shown) :
          req' = [req EXCEPT ![c] = HandleBody([req[c] EXCEPT !.body = body], body)]
    /\ UNCHANGED <<fs, mod, codec, ui, pos>>

StaleNext ==
    \/ \E f \in Files : Transform(f)
    \/ \E c \in Clients : OnEndTyped(c)
    \/ \E c \in Clients : ReadFile(c)
    \/ \E c \in Clients : WriteOpen(c)
    \/ \E c \in Clients : WriteData(c)
    \/ \E c \in Clients : Respond(c)

StaleSpec == StaleInit /\ [][StaleNext]_vars

(***************************************************************************)
(* The identifier codec on its own: any path over a small alphabet that    *)
(* has the colon in it, any line and column up to MaxNumber.               *)
(***************************************************************************)
MaxPathLen == 3
MaxNumber == 11

PathAlphabet == {"a", ":", "1"}

CodecPaths ==
    UNION {[1..n -> PathAlphabet] : n \in 1..MaxPathLen}

\* Identifiers as any client may write them.
MaxRawLen == 6

RawIds ==
    UNION {[1..n -> PathAlphabet] : n \in 1..MaxRawLen}

CodecInit ==
    /\ fs = [f \in Files |-> SrcPlain]
    /\ mod = [f \in Files |-> Loaded(fs[f], f)]
    /\ req = [r \in Clients |-> Idle]
    /\ codec \in {CodecInput(path, line, column) :
                     path \in CodecPaths, line \in 0..MaxNumber, column \in 0..MaxNumber}
                 \cup {CodecReceived(editId) : editId \in RawIds}
    /\ ui = UiIdle
    /\ pos = PosIdle

\* The stamping visitor builds the identifier.
Encode ==
    /\ codec.stage = "input"
    /\ codec' = [codec EXCEPT !.stage = "encoded",
                              !.editId = EncodeEditId(codec.path, codec.line, codec.column)]
    /\ UNCHANGED <<fs, mod, req, ui, pos>>

\* The patch handler decodes it.
Decode ==
    /\ codec.stage = "encoded"
    /\ codec' = [codec EXCEPT !.stage = "decoded", !.parsed = parseEditId(codec.editId)]
    /\ UNCHANGED <<fs, mod, req, ui, pos>>

\* The listener parses the identifier it read from the element.
ListenerParse ==
    /\ codec.stage = "received"
    /\ codec' = [codec EXCEPT !.stage = "listened",
                              !.listener = listenerParseEditId(codec.editId)]
    /\ UNCHANGED <<fs, mod, req, ui, pos>>

\* The patch handler parses the identifier of the request.
PluginParse ==
    /\ codec.stage = "listened"
    /\ codec' = [codec EXCEPT !.stage = "answered",
                              !.parsed = parseEditId(codec.editId)]
    /\ UNCHANGED <<fs, mod, req, ui, pos>>

\* The backend parses the identifier.
BackendParse ==
    /\ codec.stage = "answered"
    /\ codec' = [codec EXCEPT !.stage = "relayed",
                              !.backend = backendParseEditId(codec.editId)]
    /\ UNCHANGED <<fs, mod, req, ui, pos>>

CodecNext == Encode \/ Decode \/ ListenerParse \/ PluginParse \/ BackendParse

CodecSpec == CodecInit /\ [][CodecNext]_vars


(***************************************************************************)
(* Vocabulary of the properties.                                           *)
(***************************************************************************)
RECURSIVE Sorted(_)
Sorted(S) ==
    IF S = {} THEN <<>>
    ELSE LET m == CHOOSE x \in S : \A y \in S : x <= y
         IN  <<m>> \o Sorted(S \ {m})

\* The opening tags of a parsed text, in document order.
Elements(code) == Sorted(OpeningElements(code))

\* The values of the direct text children of the element opened at i, in
\* child order.
TextValues(code, i) ==
    LET texts == TextChildren(code, i)
        froms == Sorted({t.from : t \in texts})
    IN  [k \in 1..Len(froms) |->
            TextValue(code, CHOOSE t \in texts : t.from = froms[k])]

\* Whether the opening tag at index i sits at the position an identifier names.
AtPosition(code, i, line, column) ==
    LocStart(code, i) = [line |-> line, column |-> column - 1]

Has(io, op) == \E i \in 1..Len(io) : io[i] = op

\* The handler of c has read its file and the parser accepted the content.
HasParsed(c) ==
    /\ Has(req[c].io, "read")
    /\ req[c].absoluteFilePath \in Files
    /\ Parses(req[c].originalContent)

\* The handler of c has generated new content (and called fs.writeFile).
HasGenerated(c) == req[c].newContent # <<>>

Succeeded(c) == req[c].pc = "done" /\ req[c].status = 200

Failed(c) == req[c].pc = "done" /\ req[c].status # 200

(***************************************************************************)
(* Properties of the patch handler.                                        *)
(***************************************************************************)

\* C1: two patch requests on the same file are serialized: when two requests
\* for different elements of one file have both succeeded, one of them read
\* what the other wrote, so that the file reflects both edits (no request
\* writes a result computed from a base the other has replaced meanwhile).
C1_NoLostUpdate ==
    \A a \in Clients : \A b \in Clients \ {a} :
        ( /\ Succeeded(a) /\ Succeeded(b)
          /\ req[a].absoluteFilePath = req[b].absoluteFilePath
          /\ req[a].body.editId # req[b].body.editId )
        => \/ req[a].originalContent = req[b].newContent
           \/ req[b].originalContent = req[a].newContent

\* C2: a request that ends in a failure response has not modified its
\* target file: it has neither truncated nor written it.
C2_FailureLeavesFile ==
    \A c \in Clients :
        Failed(c) => ~Has(req[c].io, "truncate") /\ ~Has(req[c].io, "write")

\* C3: a request whose decoded path resolves to a path that is not a
\* descendant of the project root makes no file-system call at all.
C3_EscapeNeverReachesFs ==
    \A c \in Clients :
        LET id == parseEditId(req[c].body.editId)
        IN  ( /\ req[c].pc # "idle"
              /\ req[c].body.json /\ req[c].body.hasEditId /\ req[c].body.hasNewValue
              /\ id.valid
              /\ ~IsDescendant(PathResolve(VITE_PROJECT_ROOT, id.filePath),
                               VITE_PROJECT_ROOT) )
            => req[c].io = <<>>

\* C4: every identifier the stamping visitor mints for an element of the
\* content on disk decodes to a position at which the patch handler's locate
\* step finds exactly that element.
C4_StampedIsLocated ==
    \A f \in Files :
        Parses(fs[f]) =>
            \A i \in 1..Len(fs[f]) :
                fs[f][i].k = "open" =>
                    LET id == parseEditId(
                            StampToken(PathRelative(VITE_PROJECT_ROOT, f), fs[f], i).v)
                    IN  id.valid /\ Locate(fs[f], id.line, id.column) = i

\* C4 witness: a handler has read exactly the content a transform stamped,
\* with an identifier that transform minted for an element past column 9,
\* and has located the element.
C4_Witness ==
    \E c \in Clients : \E f \in Files :
        /\ HasGenerated(c)
        /\ mod[f].out.ok
        /\ mod[f].code = req[c].originalContent
        /\ req[c].body.editId \in EditIdsIn(mod[f].out.code)
        /\ req[c].targetColumn > 9

\* C5: after a successful patch the written content differs from the content
\* read only in the characters of one text child: everything before it and
\* everything after it is the same, token for token.
C5_MinimalDiff ==
    \A c \in Clients :
        HasGenerated(c) =>
            LET old == req[c].originalContent
                new == req[c].newContent
                val == Chars(req[c].body.newValue)
            IN  \E from \in 1..(Len(old) + 1) : \E to \in (from - 1)..Len(old) :
                    /\ \A m \in from..to : old[m].k = "ch"
                    /\ new = SubSeq(old, 1, from - 1) \o val \o SubSeq(old, to + 1, Len(old))

\* What a list of text children becomes when its first one is given value v
\* (a text child of no characters is no text child in the written source).
FirstReplaced(values, v) == (IF v = <<>> THEN <<>> ELSE <<v>>) \o Tail(values)

\* C6: a patch replaces the value of exactly one text child, the first direct
\* text child of the element at the decoded position: the written content has
\* the same elements, the later text children of that element keep their
\* values, and so do the text children of every other element.
C6_FirstTextChildOnly ==
    \A c \in Clients :
        HasGenerated(c) =>
            LET old == req[c].originalContent
                new == req[c].newContent
            IN  /\ Len(Elements(new)) = Len(Elements(old))
                /\ \A k \in 1..Len(Elements(old)) :
                      TextValues(new, Elements(new)[k]) =
                          IF AtPosition(old, Elements(old)[k],
                                        req[c].targetLine, req[c].targetColumn)
                          THEN FirstReplaced(TextValues(old, Elements(old)[k]),
                                             req[c].body.newValue)
                          ELSE TextValues(old, Elements(old)[k])

\* C6 witness: a patch of an element that has two direct text children and a
\* nested element with a text child of its own has been written.
C6_Witness ==
    \E c \in Clients :
        /\ req[c].pc = "written"
        /\ \E i \in OpeningElements(req[c].originalContent) :
              /\ AtPosition(req[c].originalContent, i,
                            req[c].targetLine, req[c].targetColumn)
              /\ Len(TextValues(req[c].originalContent, i)) = 2
              /\ \E j \in OpeningElements(req[c].originalContent) :
                    j > i /\ Len(TextValues(req[c].originalContent, j)) = 1

\* The handler of c has parsed a file in which no opening tag is at the
\* position its identifier names.
NoElementAtTarget(c) ==
    /\ HasParsed(c)
    /\ \A i \in OpeningElements(req[c].originalContent) :
          ~AtPosition(req[c].originalContent, i, req[c].targetLine, req[c].targetColumn)

\* C7: when the identifier is accepted and its position is that of no
\* opening tag of the content read, the handler answers 404 (target not
\* found) and has not touched the file.
C7_NotFoundStable ==
    \A c \in Clients :
        NoElementAtTarget(c) =>
            /\ req[c].pc = "done"
            /\ req[c].status = 404
            /\ req[c].io = <<"read">>

\* C7 witness: an identifier on the line of an element, but at another
\* column, has been answered after the handler read a file with elements.
C7_Witness ==
    \E c \in Clients :
        /\ NoElementAtTarget(c)
        /\ req[c].pc = "done"
        /\ \E i \in OpeningElements(req[c].originalContent) :
              LocStart(req[c].originalContent, i).line = req[c].targetLine

\* The handler of c has parsed a file in which the element at the position
\* its identifier names has no direct text child.
TargetWithoutText(c) ==
    /\ HasParsed(c)
    /\ \E i \in OpeningElements(req[c].originalContent) :
          /\ AtPosition(req[c].originalContent, i, req[c].targetLine, req[c].targetColumn)
          /\ TextValues(req[c].originalContent, i) = <<>>

\* C8: when the element at the decoded position has no direct text child,
\* the handler answers 409 (not 404) and has not touched the file.
C8_NotMutable ==
    \A c \in Clients :
        TargetWithoutText(c) =>
            /\ req[c].pc = "done"
            /\ req[c].status = 409
            /\ req[c].io = <<"read">>

\* C8 witness: the request was for an element that wraps only nested
\* elements, which have text of their own.
C8_Witness ==
    \E c \in Clients :
        /\ TargetWithoutText(c)
        /\ req[c].pc = "done"
        /\ \E i \in OpeningElements(req[c].originalContent) :
              /\ AtPosition(req[c].originalContent, i, req[c].targetLine, req[c].targetColumn)
              /\ IsOpening(req[c].originalContent[i + 1])
              /\ TextValues(req[c].originalContent, i + 1) # <<>>

\* C9: for every newValue, the empty string included, a request for an
\* element with a direct text child is not rejected, and in the content it
\* writes the element still has a first text child, whose value is newValue.
C9_ValueVerbatim ==
    \A c \in Clients :
        ( /\ HasParsed(c)
          /\ \E i \in OpeningElements(req[c].originalContent) :
                /\ AtPosition(req[c].originalContent, i,
                              req[c].targetLine, req[c].targetColumn)
                /\ TextValues(req[c].originalContent, i) # <<>> )
        => /\ HasGenerated(c)
           /\ \A k \in 1..Len(Elements(req[c].originalContent)) :
                 AtPosition(req[c].originalContent, Elements(req[c].originalContent)[k],
                            req[c].targetLine, req[c].targetColumn)
                 => LET texts == TextValues(req[c].newContent,
                                            Elements(req[c].newContent)[k])
                    IN  texts # <<>> /\ texts[1] = req[c].body.newValue

\* C10: decoding the colon-joined identifier of a non-empty path (with or
\* without colons in it), a line and a column returns that path, that line
\* and that column.
C10_RoundTrip ==
    codec.stage = "decoded" =>
        codec.parsed = [valid |-> TRUE, filePath |-> codec.path,
                        line |-> codec.line, column |-> codec.column]

\* C10 witness: a path with a colon in it that ends in a digit, and numbers
\* of two digits, have been encoded and decoded.
C10_Witness ==
    /\ codec.stage = "decoded"
    /\ codec.path = <<"a", ":", "1">>
    /\ codec.line = 10
    /\ codec.column = 11

(***************************************************************************)
(* C11: parseEditId returns null for every identifier that has fewer than  *)
(* three colon-separated parts, an empty path, or a line or column part    *)
(* that is not a number (an empty part, or one that merely starts with     *)
(* digits such as 5abc).                                                   *)
(***************************************************************************)
Numeric(s) == s # <<>> /\ \A i \in 1..Len(s) : IsDigit(s[i])

Malformed(editId) ==
    LET parts == Split(editId, ":")
        n == Len(parts)
    IN  \/ n < 3
        \/ Join(SubSeq(parts, 1, n - 2), ":") = <<>>
        \/ ~Numeric(parts[n - 1])
        \/ ~Numeric(parts[n])

C11_MalformedIsNull ==
    (codec.stage \in {"answered", "relayed"} /\ Malformed(codec.editId))
        => codec.parsed = Null

(***************************************************************************)
(* C12: the plugin's, the listener's and the backend's decoder return the  *)
(* same path and the same two trailing numbers for every identifier,       *)
(* colons in the path included.                                            *)
(***************************************************************************)
C12_DecodersAgree ==
    (codec.stage = "relayed" /\ codec.parsed.valid) =>
        /\ codec.listener.valid
        /\ codec.listener.filePath = codec.parsed.filePath
        /\ codec.listener.startOffset = codec.parsed.line
        /\ codec.listener.endOffset = codec.parsed.column
        /\ codec.backend.filePath = codec.parsed.filePath
        /\ codec.backend.loc.line = codec.parsed.line
        /\ codec.backend.loc.column = codec.parsed.column

(***************************************************************************)
(* The stamping transform on its own: a.tsx holds any source of up to      *)
(* MaxSrcLen tokens after "x=", over opening tags with and without the     *)
(* attribute, closing tags, spaces and newlines; the dev server has not   *)
(* loaded it yet, and may run a further pass over what a pass returned.    *)
(***************************************************************************)
MaxSrcLen == 5

\* An attribute value that was in the source before any pass.
EarlierId == <<"k">>

SrcAlphabet == {Open, OpenId(EarlierId), Close, Ch(" "), Ch("\n")}

\* x=(
\*
\*     <p>x</p>
\* )
SrcDeep ==
    Chars(<<"x", "=", "(", "\n", "\n", " ", " ", " ", " ">>)
    \o <<Open, Ch("x"), Close>> \o Chars(<<"\n", ")">>)

StampSources ==
    {Chars(<<"x", "=">>) \o src :
        src \in UNION {[1..n -> SrcAlphabet] : n \in 1..MaxSrcLen}}
    \cup {SrcDeep}

StampInit ==
    /\ fs \in {[f \in Files |-> IF f = PathA THEN src ELSE SrcPlain] : src \in StampSources}
    /\ mod = [f \in Files |-> Loaded(IF f = PathA THEN <<>> ELSE fs[f], f)]
    /\ req = [r \in Clients |-> Idle]
    /\ codec = CodecInput(<<"a">>, 1, 1)
    /\ ui = UiIdle
    /\ pos = PosIdle

\* A further pass of transform over the code the last pass returned.
Restamp(f) ==
    /\ mod[f].out.ok
    /\ mod' = [mod EXCEPT ![f] = Loaded(mod[f].out.code, f)]
    /\ UNCHANGED <<fs, req, codec, ui, pos>>

StampNext ==
    \/ \E f \in Files : Transform(f)
    \/ \E f \in Files : Restamp(f)

StampSpec == StampInit /\ [][StampNext]_vars

\* Every element of the code carries the attribute, and there is one.
AllStamped(code) ==
    /\ OpeningElements(code) # {}
    /\ \A i \in OpeningElements(code) : code[i].k = "openid"

\* C13: transform returns null for content in which every element already
\* carries the identifier attribute, so that a pass over the output of a pass
\* changes nothing.
C13_StampedIsLeftAlone ==
    \A f \in Files : AllStamped(mod[f].code) => ~mod[f].out.ok

\* a.tsx went through a pass that stamped it, and the code it returned, all
\* stamped, went through another.
C13_Witness ==
    /\ transform(fs[PathA], PathA).ok
    /\ mod[PathA].code = transform(fs[PathA], PathA).code
    /\ AllStamped(mod[PathA].code)
    /\ ~mod[PathA].out.ok

\* The k-th element of the code, in document order.
Element(code, k) == code[Elements(code)[k]]

\* C14: whatever passes have run, every element carries at most one
\* identifier attribute, and an attribute that was there before a pass has
\* the same value in what the pass returns.
C14_AtMostOneAttribute ==
    \A f \in Files :
        /\ \A i \in OpeningElements(mod[f].code) : Len(IdAttributes(mod[f].code[i])) <= 1
        /\ mod[f].out.ok =>
              /\ Len(Elements(mod[f].out.code)) = Len(Elements(mod[f].code))
              /\ \A k \in 1..Len(Elements(mod[f].code)) :
                    /\ Len(IdAttributes(Element(mod[f].out.code, k))) <= 1
                    /\ Element(mod[f].code, k).k = "openid"
                          => Element(mod[f].out.code, k) = Element(mod[f].code, k)

\* A pass stamped one element of a.tsx and met another that carried the
\* attribute already.
C14_Witness ==
    /\ mod[PathA].out.ok
    /\ \E k \in 1..Len(Elements(mod[PathA].code)) :
          /\ Element(mod[PathA].code, k) = OpenId(EarlierId)
          /\ Element(mod[PathA].out.code, k) = OpenId(EarlierId)
    /\ \E k \in 1..Len(Elements(mod[PathA].code)) :
          /\ Element(mod[PathA].code, k) = Open
          /\ Element(mod[PathA].out.code, k).k = "openid"

\* The identifier the claim gives to the element of code at index i of
\* the file: its path from the root, its line, its column plus one, in
\* decimal and with colons in between.
ExpectedId(f, code, i) ==
    PathRelative(VITE_PROJECT_ROOT, f) \o <<":">> \o NumToString(LocStart(code, i).line)
        \o <<":">> \o NumToString(LocStart(code, i).column + 1)

\* C15: in an eligible file every element without the attribute gets the
\* value  path:line:column  where the path is the file's path relative to the
\* root with forward slashes, the line is the 1-based line of the start of
\* the opening tag and the column is its 0-based column plus one.
C15_StampedValue ==
    \A f \in Files :
        mod[f].out.ok =>
            \A k \in 1..Len(Elements(mod[f].code)) :
                Element(mod[f].code, k) = Open =>
                    Element(mod[f].out.code, k)
                        = OpenId(ExpectedId(f, mod[f].code, Elements(mod[f].code)[k]))

\* The element at line 3, column 4 (0-based) of a.tsx got a.tsx:3:5.
C15_Witness ==
    /\ mod[PathA].code = SrcDeep
    /\ mod[PathA].out.ok
    /\ LocStart(SrcDeep, Elements(SrcDeep)[1]) = [line |-> 3, column |-> 4]
    /\ Element(mod[PathA].out.code, 1)
          = OpenId(<<"a", ".", "t", "s", "x", ":", "3", ":", "5">>)

\* C16: within one stamped file any two distinct elements, two on the same
\* line included, get distinct identifiers, so that an identifier names at
\* most one element of the file in the locate step.
C16_DistinctIds ==
    \A f \in Files :
        mod[f].out.ok =>
            LET n == Len(Elements(mod[f].code))
                Stamped == {k \in 1..n : Element(mod[f].code, k) = Open}
                Id(k) == parseEditId(Element(mod[f].out.code, k).v)
            IN  /\ \A k \in Stamped : \A m \in Stamped \ {k} :
                      Element(mod[f].out.code, k).v # Element(mod[f].out.code, m).v
                /\ \A k \in Stamped :
                      {i \in OpeningElements(mod[f].code) :
                          AtPosition(mod[f].code, i, Id(k).line, Id(k).column)}
                        = {Elements(mod[f].code)[k]}

\* Two elements that start on the same line of a.tsx were stamped in one pass.
C16_Witness ==
    /\ mod[PathA].out.ok
    /\ \E k \in 1..Len(Elements(mod[PathA].code)) :
          \E m \in 1..Len(Elements(mod[PathA].code)) :
            /\ k # m
            /\ Element(mod[PathA].code, k) = Open
            /\ Element(mod[PathA].code, m) = Open
            /\ LocStart(mod[PathA].code, Elements(mod[PathA].code)[k]).line
                  = LocStart(mod[PathA].code, Elements(mod[PathA].code)[m]).line
            /\ Element(mod[PathA].out.code, k).v # Element(mod[PathA].out.code, m).v

(***************************************************************************)
(* Outcomes of the patch handler.                                          *)
(***************************************************************************)

\* The handler of c took a JSON body with both fields and an identifier that
\* parseEditId decodes.
Decoded(c) ==
    /\ req[c].pc # "idle"
    /\ req[c].body.json /\ req[c].body.hasEditId /\ req[c].body.hasNewValue
    /\ parseEditId(req[c].body.editId).valid

\* The path is one the claim wants refused: it resolves outside the root,
\* has a parent-directory segment, or lies under a node_modules directory.
Forbidden(filePath) ==
    LET abs == PathResolve(VITE_PROJECT_ROOT, filePath)
    IN  \/ ~IsDescendant(abs, VITE_PROJECT_ROOT)
        \/ \E i \in DOMAIN Split(filePath, "/") : Split(filePath, "/")[i] = <<".", ".">>
        \/ \E i \in DOMAIN Split(abs, "/") : Split(abs, "/")[i] = NODE_MODULES

\* C17: a request whose decoded path resolves outside the root, has a
\* parent-directory segment or lies under a vendor directory is answered with
\* the access-denied outcome ('Invalid path'), which differs from the
\* invalid-identifier outcome.
C17_ForbiddenPathDenied ==
    \A c \in Clients :
        (Decoded(c) /\ Forbidden(parseEditId(req[c].body.editId).filePath)) =>
            /\ req[c].pc = "done"
            /\ req[c].status = 400
            /\ req[c].error = "Invalid path"
            /\ req[c].error # "Invalid editId format (filePath:line:column)"

\* C18: when the file at the accepted path cannot be read, the request is
\* answered with a not-found outcome, which differs from the outcome of
\* internal failures (parse and write errors).
C18_UnreadableIsNotFound ==
    \A c \in Clients :
        ( /\ req[c].pc = "done"
          /\ Has(req[c].io, "read")
          /\ req[c].absoluteFilePath \notin DOMAIN fs ) =>
            /\ req[c].status = 404
            /\ req[c].error # "Internal server error during edit application."

\* C19: every body in which editId or newValue is missing, a body that is
\* not a JSON object included, is answered with a client error (4xx), and no
\* file is read or written for it.
C19_MissingFieldIsClientError ==
    \A c \in Clients :
        ( /\ req[c].pc # "idle"
          /\ ~req[c].body.json \/ ~req[c].body.hasEditId \/ ~req[c].body.hasNewValue ) =>
            /\ req[c].pc = "done"
            /\ req[c].status \in 400..499
            /\ req[c].io = <<>>

\* C20: the success response is sent only after the write of the file has
\* completed; its filePath is the path decoded from the identifier and its
\* newContent is the whole content this request wrote.
C20_SuccessAfterWrite ==
    [][\A c \in Clients :
          /\ (req[c].pc = "truncated" /\ req'[c].pc = "written") =>
                fs'[req[c].absoluteFilePath] = req[c].newContent
          /\ (req[c].pc # "done" /\ req'[c].pc = "done" /\ req'[c].status = 200) =>
                /\ req[c].pc = "written"
                /\ req[c].io = <<"read", "truncate", "write">>
                /\ req'[c].resFilePath = parseEditId(req[c].body.editId).filePath
                /\ req'[c].resNewContent = req[c].newContent
                /\ req'[c].resNewContent # <<>>]_vars

\* A request was answered with success and the content it wrote.
C20_Witness ==
    \E c \in Clients :
        /\ Succeeded(c)
        /\ Has(req[c].io, "write")
        /\ req[c].resNewContent = req[c].newContent
        /\ req[c].resFilePath = <<"a", ".", "t", "s", "x">>

(***************************************************************************)
(* What the stamping transform returns.                                    *)
(***************************************************************************)

\* The path is one the claim wants passed through: no .jsx or .tsx at its
\* end, not the root or below it, or in a node_modules directory.
Inapplicable(id) ==
    \/ ~(EndsWith(id, <<".", "j", "s", "x">>) \/ EndsWith(id, <<".", "t", "s", "x">>))
    \/ ~IsDescendant(id, VITE_PROJECT_ROOT)
    \/ \E i \in DOMAIN Split(id, "/") : Split(id, "/")[i] = NODE_MODULES

\* C21: transform returns null for every module whose path has no UI-markup
\* extension, lies outside the project root (a sibling directory whose path
\* starts with the root's path string included) or lies in a vendor
\* directory.
C21_InapplicableIsNull ==
    \A f \in Files : Inapplicable(f) => mod[f].out = ReturnNull

\* C22: for an eligible module whose content makes the parser fail,
\* transform returns null and throws nothing to the build pipeline.
C22_ParseFailureIsNull ==
    \A f \in Files :
        (Eligible(f) /\ ~Parses(mod[f].code)) =>
            /\ ~mod[f].out.threw
            /\ mod[f].out = ReturnNull

\* a.tsx was loaded with content the parser rejects (a closing tag that
\* nothing opened), and transform returned null.
C22_Witness ==
    /\ mod[PathA].code = fs[PathA]
    /\ Eligible(PathA)
    /\ Depth(mod[PathA].code, Len(mod[PathA].code)) < 0
    /\ mod[PathA].out = ReturnNull

\* Some element of the code has no identifier attribute.
HasUnstamped(code) == \E i \in OpeningElements(code) : code[i] = Open

\* C23: transform returns code exactly when the pass stamped at least one
\* element; when it stamped none it returns null.
C23_CodeIffStamped ==
    \A f \in Files :
        /\ mod[f].out.ok <=> (Eligible(f) /\ Parses(mod[f].code) /\ HasUnstamped(mod[f].code))
        /\ mod[f].out.ok =>
              \E k \in 1..Len(Elements(mod[f].code)) :
                  /\ Element(mod[f].code, k) = Open
                  /\ Element(mod[f].out.code, k).k = "openid"
        /\ ~mod[f].out.ok => mod[f].out.code = <<>>

\* a.tsx parsed and had elements, none to stamp, so that transform returned
\* null for it, while the pass over b.tsx stamped one and returned code.
C23_Witness ==
    /\ mod[PathA].code = fs[PathA]
    /\ Parses(mod[PathA].code) /\ AllStamped(mod[PathA].code)
    /\ ~mod[PathA].out.ok
    /\ HasUnstamped(mod[PathB].code) /\ mod[PathB].out.ok

(***************************************************************************)
(* Frame of the patch handler.                                             *)
(***************************************************************************)

\* C24: the handler parses what it has just read from disk, never stamped
\* output: the sources start without identifier attributes, and after any
\* stamping passes and patches no file on disk holds one, nor does any
\* content a handler parsed.
C24_DiskNeverStamped ==
    /\ \A f \in Files : EditIdsIn(fs[f]) = {}
    /\ \A c \in Clients :
          /\ EditIdsIn(req[c].originalContent) = {}
          /\ EditIdsIn(req[c].newContent) = {}

\* A patch of a.tsx succeeded, the dev server ran the stamping pass on the
\* content written, and the file on disk is still the unstamped content.
C24_Witness ==
    \E c \in Clients :
        /\ Succeeded(c)
        /\ req[c].absoluteFilePath = PathA
        /\ fs[PathA] = req[c].resNewContent
        /\ mod[PathA].code = fs[PathA]
        /\ mod[PathA].out.ok /\ EditIdsIn(mod[PathA].out.code) # {}
        /\ EditIdsIn(fs[PathA]) = {}

\* The answer to request c and the content of its file are those of a run
\* in which c is the only request: c read the file's first content, its
\* answer is the one the handler computes from that content, and the file
\* holds what c made of it (the new content, the old content when nothing
\* was written, nothing when the write failed after truncating).
AsIfAlone(c) ==
    LET r == req[c]
        f == r.absoluteFilePath
        alone == AfterRead(r, r.originalContent)
    IN  IF f \notin DOMAIN fs THEN r.status = 500 /\ r.io = <<"read">>
        ELSE /\ r.originalContent \in (IF f = PathA THEN InitialSources ELSE {SrcPlain})
             /\ IF alone.pc = "done"
                THEN /\ r.status = alone.status /\ r.error = alone.error
                     /\ r.io = <<"read">>
                     /\ fs[f] = r.originalContent
                ELSE /\ r.newContent = alone.newContent
                     /\ \/ /\ r.status = 200 /\ r.resNewContent = alone.newContent
                           /\ r.io = <<"read", "truncate", "write">>
                           /\ fs[f] = alone.newContent
                        \/ /\ r.status = 500 /\ r.io = <<"read">>
                           /\ fs[f] = r.originalContent
                        \/ /\ r.status = 500 /\ r.io = <<"read", "truncate">>
                           /\ fs[f] = <<>>

\* C25: requests on different files share no state: when two requests that
\* target different files have both been answered, however their steps were
\* interleaved, each answer and each file's content are what they would be
\* had the request run alone.
C25_DifferentFilesIndependent ==
    \A a \in Clients : \A b \in Clients \ {a} :
        ( /\ req[a].pc = "done" /\ req[b].pc = "done"
          /\ Has(req[a].io, "read") /\ Has(req[b].io, "read")
          /\ req[a].absoluteFilePath # req[b].absoluteFilePath )
        => (AsIfAlone(a) /\ AsIfAlone(b))

\* Two requests, one on a.tsx and one on b.tsx, both succeeded.
C25_Witness ==
    \E a \in Clients : \E b \in Clients :
        /\ Succeeded(a) /\ req[a].absoluteFilePath = PathA
        /\ Succeeded(b) /\ req[b].absoluteFilePath = PathB
        /\ fs[PathA] = req[a].resNewContent
        /\ fs[PathB] = req[b].resNewContent

\* C26: every request whose body was received is answered, once: a handler
\* that waits for the file system is answered in the end, an answer is one of
\* 200, 400, 404, 409 and 500, and an answered request is never answered
\* again.
C26_AnsweredOnce ==
    /\ \A c \in Clients : (req[c].pc \notin {"idle", "done"}) ~> (req[c].pc = "done")
    /\ [](\A c \in Clients :
            IF req[c].pc = "done" THEN req[c].status \in {200, 400, 404, 409, 500}
            ELSE req[c].status = NoResponse)
    /\ [][\A c \in Clients : req[c].pc = "done" => req'[c] = req[c]]_vars

\* A handler that waited for the file system was answered with an error, and
\* another with success.
C26_Witness ==
    \E a \in Clients : \E b \in Clients :
        /\ Failed(a) /\ Has(req[a].io, "truncate")
        /\ Succeeded(b)

C29_ForwardsOnlyAccepted ==
    /\ ui.stage = "message" => ui.forwards = 0
    /\ ui.stage = "handled" =>
          ui.forwards =
              IF /\ ui.message.origin \in {"http://localhost:5173", "http://localhost:3000"}
                 /\ ui.message.type = "editApplied"
                 /\ ui.message.source # "react-devtools-content-script"
              THEN 1 ELSE 0

\* A message from the host page's own origin has been forwarded.
C29_Witness ==
    /\ ui.stage = "handled"
    /\ ui.message.origin = HostOrigin
    /\ ui.forwards = 1

\* The element the search of an input event ends on: the nearest element
\* of the path that carries the attribute, when it is at most SearchLimit
\* steps from the target.
Carrier(event) ==
    {k \in 1..Len(event.path) :
        /\ event.path[k].hasAttribute
        /\ \A j \in 1..(k - 1) : ~event.path[j].hasAttribute
        /\ k - 1 <= 10}

\* C30: the listener sends the apply-edit request for an input event exactly
\* when the target is content-editable, an element carrying data-edit-id is
\* found among the target and its ancestors at most 10 steps up, and the value
\* of that attribute is one the listener's parseEditId decodes; the request
\* carries that value; and the search ends after at most 11 steps.
C30_SendsOnlyDecodable ==
    ui.stage = "edited" =>
        /\ ui.fetch.sent <=>
              /\ ui.event.isHTMLElement /\ ui.event.isContentEditable
              /\ \E k \in Carrier(ui.event) :
                    listenerParseEditId(ui.event.path[k].value).valid
        /\ ui.fetch.sent =>
              \E k \in Carrier(ui.event) : ui.fetch.editId = ui.event.path[k].value
        /\ ui.fetch.searchDepth <= 11

\* A request has been sent for an identifier found ten steps above the target.
C30_Witness ==
    /\ ui.stage = "edited"
    /\ ui.fetch.sent
    /\ ui.fetch.searchDepth = 10
    /\ Len(ui.event.path) > 11

\* The indices (0-based) of the line feeds before the offset.
NewlinesBefore(content, offset) == {i \in 0..(offset - 1) : content[i + 1] = "\n"}

\* The greatest element of a set of indices, -1 for the empty set.
Last(S) == IF S = {} THEN -1 ELSE CHOOSE i \in S : \A j \in S : j <= i

\* A node can start at the offset: the character there is not a line
\* terminator, nor is the offset the end of the text.
NodeStart(content, offset) ==
    /\ offset >= 0 /\ offset < Len(content)
    /\ content[offset + 1] \notin {"\n", "\r"}

\* C31 (first part): getLineColFromOffset returns null for an offset below 0
\* or above the length, and otherwise line = 1 + the number of line feeds
\* before the offset and column = offset minus the index of the last line feed
\* before it (-1 when there is none).
C31_LineColOfOffset ==
    pos.stage = "computed" =>
        IF pos.offset < 0 \/ pos.offset > Len(pos.content)
        THEN pos.loc = NoPosition
        ELSE /\ pos.loc.valid
             /\ pos.loc.line = 1 + Cardinality(NewlinesBefore(pos.content, pos.offset))
             /\ pos.loc.column =
                   pos.offset - Last(NewlinesBefore(pos.content, pos.offset))

\* C31: what getLineColFromOffset returns for the offset of a node's start
\* is the position the stamping pass records for that node: the parser's line
\* and the parser's column + 1.
C31_SameAsStampedPosition ==
    /\ C31_LineColOfOffset
    /\ pos.stage = "computed" /\ NodeStart(pos.content, pos.offset) =>
          /\ pos.loc.line = BabelLocStart(pos.content, pos.offset).line
          /\ pos.loc.column = BabelLocStart(pos.content, pos.offset).column + 1

\* The identifiers transform has put into the code of module f.
Minted(f) ==
    IF mod[f].out.ok THEN EditIdsIn(mod[f].out.code) \ EditIdsIn(mod[f].code) ELSE {}

\* C32: every identifier the stamping transform has minted for a file is
\* decoded by the patch handler to the file's path relative to the root, and
\* that path passes the handler's path check.
C32_MintedIsAccepted ==
    \A f \in DOMAIN mod : \A editId \in Minted(f) :
        LET parsedId == parseEditId(editId)
        IN  /\ parsedId.valid
            /\ parsedId.filePath = PathRelative(VITE_PROJECT_ROOT, f)
            /\ PathAccepted(parsedId.filePath,
                            PathResolve(VITE_PROJECT_ROOT, parsedId.filePath))

\* Request d carries the identifier of request c and has read the file as
\* the successful request c wrote it.
Follows(d, c) ==
    /\ Succeeded(c)
    /\ Has(req[d].io, "read")
    /\ req[d].body.editId = req[c].body.editId
    /\ req[d].absoluteFilePath = req[c].absoluteFilePath
    /\ req[d].originalContent = req[c].newContent

\* C33: a patch (id, w) that follows a successful patch (id, v) of the same
\* file finds the element and changes its text: it is not answered 404 or
\* 409, the content it generates is the content the patch (id, w) generates
\* from the original file, and when w = v it is the content it read.
C33_SameIdAddressesSameElement ==
    \A c \in Clients : \A d \in Clients \ {c} :
        Follows(d, c) =>
            /\ HasGenerated(d)
            /\ req[d].newContent = AfterRead(req[d], req[c].originalContent).newContent
            /\ req[d].body.newValue = req[c].body.newValue =>
                  req[d].newContent = req[d].originalContent

====
